---- MODULE Spec2Model ----
(***************************************************************************)
(* A model of divan's picosecond duration type (src/time/fine_duration.rs),*)
(* of the #[divan::bench] attribute macro (macros/src/lib.rs) and of the   *)
(* benchmark driver the crate documentation (src/lib.rs) describes.        *)
(*                                                                         *)
(* u128 values do not fit TLC's integers, so an unsigned integer is a      *)
(* sequence of base-1000 limbs, least significant first, without leading   *)
(* zero limbs; << >> is zero.  Arithmetic on them is exact; the 128-bit    *)
(* width is applied where the code multiplies (WrapU128).                  *)
(***************************************************************************)
EXTENDS Integers, Sequences, FiniteSets, TLC

----------------------------------------------------------------------------
(* Unsigned integers wider than TLC's: base-1000 limbs.                    *)

LimbBase == 1000

RECURSIVE BigNorm(_)
BigNorm(a) ==
    IF a = << >> THEN << >>
    ELSE IF a[Len(a)] = 0 THEN BigNorm(SubSeq(a, 1, Len(a) - 1))
    ELSE a

RECURSIVE BigFromInt(_)
BigFromInt(n) ==
    IF n = 0 THEN << >>
    ELSE <<n % LimbBase>> \o BigFromInt(n \div LimbBase)

RECURSIVE BigToInt(_)
BigToInt(a) ==
    IF a = << >> THEN 0
    ELSE a[1] + LimbBase * BigToInt(Tail(a))

Limb(a, i) == IF i <= Len(a) THEN a[i] ELSE 0

MaxOf(x, y) == IF x >= y THEN x ELSE y

RECURSIVE BigCmpFrom(_, _, _)
\* compares limbs i, i-1, ..., 1 of two numbers of equal length
BigCmpFrom(a, b, i) ==
    IF i = 0 THEN 0
    ELSE IF a[i] < b[i] THEN -1
    ELSE IF a[i] > b[i] THEN 1
    ELSE BigCmpFrom(a, b, i - 1)

BigCmp(a, b) ==
    IF Len(a) < Len(b) THEN -1
    ELSE IF Len(a) > Len(b) THEN 1
    ELSE BigCmpFrom(a, b, Len(a))

BigLess(a, b) == BigCmp(a, b) < 0
BigLeq(a, b) == BigCmp(a, b) <= 0

RECURSIVE BigAddFrom(_, _, _, _)
BigAddFrom(a, b, i, carry) ==
    IF i > Len(a) /\ i > Len(b)
    THEN (IF carry = 0 THEN << >> ELSE <<carry>>)
    ELSE LET s == Limb(a, i) + Limb(b, i) + carry
         IN  <<s % LimbBase>> \o BigAddFrom(a, b, i + 1, s \div LimbBase)

BigAdd(a, b) == BigAddFrom(a, b, 1, 0)

RECURSIVE BigSubFrom(_, _, _, _)
\* a - b for b <= a
BigSubFrom(a, b, i, borrow) ==
    IF i > Len(a) THEN << >>
    ELSE LET s == a[i] - Limb(b, i) - borrow
         IN  IF s < 0
             THEN <<s + LimbBase>> \o BigSubFrom(a, b, i + 1, 1)
             ELSE <<s>> \o BigSubFrom(a, b, i + 1, 0)

BigSub(a, b) == BigNorm(BigSubFrom(a, b, 1, 0))

RECURSIVE BigMulSmallFrom(_, _, _, _)
\* a * m for an integer 0 <= m <= 2000000
BigMulSmallFrom(a, m, i, carry) ==
    IF i > Len(a) THEN BigFromInt(carry)
    ELSE LET s == a[i] * m + carry
         IN  <<s % LimbBase>> \o BigMulSmallFrom(a, m, i + 1, s \div LimbBase)

BigMulSmall(a, m) == IF m = 0 THEN << >> ELSE BigMulSmallFrom(a, m, 1, 0)

BigShift(a, k) ==
    IF a = << >> THEN << >> ELSE [i \in 1..k |-> 0] \o a

RECURSIVE BigMulFrom(_, _, _)
BigMulFrom(a, b, i) ==
    IF i > Len(b) THEN << >>
    ELSE BigAdd(BigShift(BigMulSmall(a, b[i]), i - 1), BigMulFrom(a, b, i + 1))

BigMul(a, b) == BigMulFrom(a, b, 1)

RECURSIVE QuotLimb(_, _, _, _)
\* the largest q in lo..hi with b * q <= r, by bisection
QuotLimb(r, b, lo, hi) ==
    IF lo = hi THEN lo
    ELSE LET mid == (lo + hi + 1) \div 2
         IN  IF BigLeq(BigMulSmall(b, mid), r)
             THEN QuotLimb(r, b, mid, hi)
             ELSE QuotLimb(r, b, lo, mid - 1)

RECURSIVE BigDivModFrom(_, _, _, _, _)
\* long division, from the most significant limb i of a down to limb 1; r is
\* the running remainder and qs the quotient's limbs so far.  Yields
\* <<quotient, rest>>.  (The test on nr and q only fixes the order in which
\* TLC evaluates them.)
BigDivModFrom(a, b, i, r, qs) ==
    IF i = 0 THEN <<qs, r>>
    ELSE LET cur == BigNorm(<<a[i]>> \o r)
             q   == QuotLimb(cur, b, 0, LimbBase - 1)
             nr  == BigSub(cur, BigMulSmall(b, q))
         IN  IF q >= 0 /\ Len(nr) >= 0
             THEN BigDivModFrom(a, b, i - 1, nr, <<q>> \o qs)
             ELSE << >>

\* a / b and a % b of unsigned integers, b > 0
BigDiv(a, b) == BigNorm(BigDivModFrom(a, b, Len(a), << >>, << >>)[1])
BigMod(a, b) == BigDivModFrom(a, b, Len(a), << >>, << >>)[2]

RECURSIVE BigPow(_, _)
BigPow(m, n) == IF n = 0 THEN <<1>> ELSE BigMulSmall(BigPow(m, n - 1), m)

----------------------------------------------------------------------------
(* Rust's integer widths and strings.                                      *)

\* 2^64 and 2^128, the moduli of u64 and u128
U64_MODULUS == BigPow(65536, 4)
U128_MODULUS == BigPow(65536, 8)
U64_MAX == BigSub(U64_MODULUS, <<1>>)
U128_MAX == BigSub(U128_MODULUS, <<1>>)

\* the value a u128 holds after an arithmetic result x (wrapping build)
WrapU128(x) == IF BigLess(x, U128_MODULUS) THEN x ELSE BigMod(x, U128_MODULUS)

\* A String is a sequence of one-character strings; indices in the
\* operators below are Rust's, counted from 0.
Digits == <<"0", "1", "2", "3", "4", "5", "6", "7", "8", "9">>
DigitChar(d) == Digits[d + 1]
IsDigit(c) == \E d \in 0..9 : Digits[d + 1] = c
DigitVal(c) == CHOOSE d \in 0..9 : Digits[d + 1] = c

RECURSIVE IntToChars(_)
\* the decimal digits of an integer n >= 0
IntToChars(n) ==
    IF n < 10 THEN <<DigitChar(n)>>
    ELSE IntToChars(n \div 10) \o <<DigitChar(n % 10)>>

Pad3(n) == <<DigitChar(n \div 100), DigitChar((n \div 10) % 10), DigitChar(n % 10)>>

RECURSIVE LowLimbChars(_, _)
LowLimbChars(a, i) ==
    IF i = 0 THEN << >> ELSE Pad3(a[i]) \o LowLimbChars(a, i - 1)

\* u128::to_string
u128_to_string(a) ==
    IF a = << >> THEN <<"0">>
    ELSE IntToChars(a[Len(a)]) \o LowLimbChars(a, Len(a) - 1)

\* str.find(c): the index of the first c, or -1 for None
find(str, c) ==
    IF \E i \in 1..Len(str) : str[i] = c
    THEN (CHOOSE i \in 1..Len(str) : str[i] = c /\ \A j \in 1..(i - 1) : str[j] # c) - 1
    ELSE -1

\* str.truncate(n)
truncate(str, n) == IF n >= Len(str) THEN str ELSE SubSeq(str, 1, n)

----------------------------------------------------------------------------
(* mod picos and TimeScale.                                                *)

NANOS == BigFromInt(1000)
MICROS == BigMulSmall(NANOS, 1000)
MILLIS == BigMulSmall(MICROS, 1000)
SEC == BigMulSmall(MILLIS, 1000)
MIN == BigMulSmall(SEC, 60)
HOUR == BigMulSmall(MIN, 60)
DAY == BigMulSmall(HOUR, 24)

TimeScale == {"PicoSec", "NanoSec", "MicroSec", "MilliSec", "Sec", "Min", "Hour", "Day"}

\* a plausible slip: the minute threshold compared with <= instead of <
from_picos_le(picos) ==
    IF BigLess(picos, NANOS) THEN "PicoSec"
    ELSE IF BigLess(picos, MICROS) THEN "NanoSec"
    ELSE IF BigLess(picos, MILLIS) THEN "MicroSec"
    ELSE IF BigLess(picos, SEC) THEN "MilliSec"
    ELSE IF BigLeq(picos, MIN) THEN "Sec"
    ELSE IF BigLess(picos, HOUR) THEN "Min"
    ELSE IF BigLess(picos, DAY) THEN "Hour"
    ELSE "Day"

from_picos(picos) ==
    IF BigLess(picos, NANOS) THEN "PicoSec"
    ELSE IF BigLess(picos, MICROS) THEN "NanoSec"
    ELSE IF BigLess(picos, MILLIS) THEN "MicroSec"
    ELSE IF BigLess(picos, SEC) THEN "MilliSec"
    ELSE IF BigLess(picos, MIN) THEN "Sec"
    ELSE IF BigLess(picos, HOUR) THEN "Min"
    ELSE IF BigLess(picos, DAY) THEN "Hour"
    ELSE "Day"

\* a plausible slip: the hour's arm copied from the minute's
TimeScale_picos_hour_min(self) ==
    CASE self = "PicoSec" -> <<1>>
      [] self = "NanoSec" -> NANOS
      [] self = "MicroSec" -> MICROS
      [] self = "MilliSec" -> MILLIS
      [] self = "Sec" -> SEC
      [] self = "Min" -> MIN
      [] self = "Hour" -> MIN
      [] self = "Day" -> DAY

\* lines 141-154
TimeScale_picos(self) ==
    CASE self = "PicoSec" -> <<1>>
      [] self = "NanoSec" -> NANOS
      [] self = "MicroSec" -> MICROS
      [] self = "MilliSec" -> MILLIS
      [] self = "Sec" -> SEC
      [] self = "Min" -> MIN
      [] self = "Hour" -> HOUR
      [] self = "Day" -> DAY

suffix(self) ==
    CASE self = "PicoSec" -> <<"p", "s">>
      [] self = "NanoSec" -> <<"n", "s">>
      [] self = "MicroSec" -> <<"µ", "s">>
      [] self = "MilliSec" -> <<"m", "s">>
      [] self = "Sec" -> <<"s">>
      [] self = "Min" -> <<"m">>
      [] self = "Hour" -> <<"h">>
      [] self = "Day" -> <<"d">>

----------------------------------------------------------------------------
(* impl From<Duration> for FineDuration.                                   *)

\* std's Duration is seconds (u64) and sub-second nanoseconds (< 10^9)
NANOS_PER_SEC == BigFromInt(1000000000)

\* Duration::as_nanos: secs as u128 * NANOS_PER_SEC + nanos as u128
as_nanos(duration) ==
    BigAdd(BigMul(duration.secs, NANOS_PER_SEC), BigFromInt(duration.nanos))

\* a plausible slip: the count kept in 64 bits
from_u64(duration) ==
    [picos |-> BigMod(BigMulSmall(as_nanos(duration), 1000), U64_MODULUS)]

from(duration) ==
    [picos |-> WrapU128(BigMulSmall(as_nanos(duration), 1000))]

----------------------------------------------------------------------------
(* impl fmt::Display for FineDuration.                                     *)
(*                                                                         *)
(* The f64 the code formats is n / 1000.0 for an integer n.  Below 2^53    *)
(* n is exact as an f64 and the quotient is the f64 nearest to the decimal *)
(* n/1000, so the value is kept as its count of thousandths, n.            *)

SIG_FIGS == 4

\* (x as f64) / 1000.0, as a count of thousandths
f64_div_1000(x) == BigToInt(x)

\* val.trunc()
trunc(val) == val \div 1000

\* val.log10() as usize for an integral val >= 0: log10(0.0) is -inf, which
\* the cast saturates to 0
log10_as_usize(v) == IF v = 0 THEN 0 ELSE Len(IntToChars(v)) - 1

saturating_sub(a, b) == IF a >= b THEN a - b ELSE 0

RECURSIVE StripZeros(_)
StripZeros(s) ==
    IF s # << >> /\ s[Len(s)] = "0" THEN StripZeros(SubSeq(s, 1, Len(s) - 1)) ELSE s

\* f64::to_string: the shortest decimal that reads back as the same f64,
\* which for n/1000 is its integer part and, when the fraction is not zero,
\* a point and the fraction's digits without trailing zeros
f64_to_string(val) ==
    IF val % 1000 = 0 THEN IntToChars(val \div 1000)
    ELSE IntToChars(val \div 1000) \o <<".">> \o StripZeros(Pad3(val % 1000))

\* str.get(start..end): << >> stands for None when the range runs past the end
get_is_some(str, start, end) == start <= end /\ end <= Len(str)

\* fract_str.bytes().rev().enumerate().find_map(..): the offset from the end
\* of the last byte that is not '0', or -1 for None
pre_zero_of(fract_str) ==
    IF \E i \in 1..Len(fract_str) : fract_str[i] # "0"
    THEN Len(fract_str)
           - (CHOOSE i \in 1..Len(fract_str) :
                 /\ fract_str[i] # "0"
                 /\ \A j \in (i + 1)..Len(fract_str) : fract_str[j] = "0")
    ELSE -1

\* a plausible slip: the fraction cut to fract_digits without looking for
\* the zeros it ends in
strip_fract_keep_zeros(str, fract_digits) ==
    LET dot_index == find(str, ".")
    IN  IF dot_index = -1 THEN str
        ELSE IF fract_digits = 0 THEN truncate(str, dot_index)
        ELSE truncate(str, dot_index + 1 + fract_digits)

\* a plausible slip: a fraction shorter than fract_digits (str.get is None)
\* handled like a fraction of zeros
strip_fract_none_cut(str, fract_digits) ==
    LET dot_index == find(str, ".")
    IN  IF dot_index = -1 THEN str
        ELSE IF fract_digits = 0 THEN truncate(str, dot_index)
        ELSE LET fract_start == dot_index + 1
                 fract_end   == fract_start + fract_digits
             IN  IF get_is_some(str, fract_start, fract_end)
                 THEN LET fract_str == SubSeq(str, fract_start + 1, fract_end)
                          pre_zero  == pre_zero_of(fract_str)
                      IN  IF pre_zero # -1
                          THEN truncate(str, fract_end - pre_zero)
                          ELSE truncate(str, dot_index)
                 ELSE truncate(str, dot_index)

\* lines 40-65: cut the fraction to fract_digits and drop the zeros it ends in
strip_fract(str, fract_digits) ==
    LET dot_index == find(str, ".")
    IN  IF dot_index = -1 THEN str
        ELSE IF fract_digits = 0 THEN truncate(str, dot_index)
        ELSE LET fract_start == dot_index + 1
                 fract_end   == fract_start + fract_digits
             IN  IF get_is_some(str, fract_start, fract_end)
                 THEN LET fract_str == SubSeq(str, fract_start + 1, fract_end)
                          pre_zero  == pre_zero_of(fract_str)
                      IN  IF pre_zero # -1
                          THEN truncate(str, fract_end - pre_zero)
                          ELSE truncate(str, dot_index)
                 ELSE str

\* line 33: let val = (((picos * 1000) / scale.picos()) as f64) / 1000.0
float_val(picos, scale) ==
    f64_div_1000(BigDiv(WrapU128(BigMulSmall(picos, 1000)), TimeScale_picos(scale)))

\* line 35: let int_digits = 1 + val.trunc().log10() as usize
int_digits_of(val) == 1 + log10_as_usize(trunc(val))

\* line 36: let fract_digits = SIG_FIGS.saturating_sub(int_digits)
fract_digits_of(val) == saturating_sub(SIG_FIGS, int_digits_of(val))

\* lines 41-42: the fraction is stripped whole because no fractional digit
\* is allowed
strips_whole_fraction(val) ==
    find(f64_to_string(val), ".") # -1 /\ fract_digits_of(val) = 0

\* lines 30-67: the floating point representation
float_repr(picos, scale) ==
    LET val == float_val(picos, scale)
    IN  strip_fract(f64_to_string(val), fract_digits_of(val))

\* a plausible slip: the integer branch divides by the hour
int_repr_hour(picos) == u128_to_string(BigDiv(picos, HOUR))

\* lines 27-28: the integer representation
int_repr(picos) == u128_to_string(BigDiv(picos, DAY))

\* picos::DAY * 1000
DAY_1000 == WrapU128(BigMulSmall(DAY, 1000))

\* FineDuration's Display: the number, then the unit suffix
fmt_number(self) ==
    IF BigLeq(DAY_1000, self.picos)
    THEN int_repr(self.picos)
    ELSE float_repr(self.picos, from_picos(self.picos))

fmt(self) == fmt_number(self) \o suffix(from_picos(self.picos))

----------------------------------------------------------------------------
(* #[divan::bench] (macros/src/lib.rs).                                    *)
(*                                                                         *)
(* attr is the attribute's argument list, a sequence of [path, value];     *)
(* item is the annotated item: [is_fn, fn_name, raw, attrs, inputs_empty,  *)
(* body], attrs being its other attributes, a sequence of [path, form]     *)
(* with form "Path" (#[ignore]), "NameValue" (#[ignore = "..."]) or "List".*)

\* Option: None, or Some(v)
None == << >>
Some(v) == <<v>>

RECURSIVE attr_parser(_, _)
\* lines 14-24: the properties are read in order, the first unsupported one
\* is an error
attr_parser(attr, acc) ==
    IF attr = << >> THEN acc
    ELSE LET meta == Head(attr)
         IN  IF meta.path = "crate"
             THEN attr_parser(Tail(attr), [acc EXCEPT !.divan_crate = Some(meta.value)])
             ELSE IF meta.path = "name"
             THEN attr_parser(Tail(attr), [acc EXCEPT !.bench_name_expr = Some(meta.value)])
             ELSE [acc EXCEPT !.error = Some("unsupported 'bench' property")]

\* a plausible slip: only the bare form #[ignore] is recognised
ignore_path_only(attrs) ==
    \E i \in 1..Len(attrs) : attrs[i].path = "ignore" /\ attrs[i].form = "Path"

RECURSIVE ignore_from(_, _)
ignore_from(attrs, i) ==
    IF i > Len(attrs) THEN FALSE
    ELSE IF attrs[i].path = "ignore" THEN TRUE
    ELSE ignore_from(attrs, i + 1)

\* lines 42-50: let mut ignore = false; for attr in &fn_item.attrs { .. }
ignore_of(attrs) == ignore_from(attrs, 1)

\* lines 52-58: module_path!() :: fn_name, the r# prefix stripped
bench_path_expr(item) == <<item.module_path, item.fn_name>>

\* lines 67-77
bench_loop_of(item) == IF item.inputs_empty THEN "Static" ELSE "Runtime"

\* the macro: an error (the build fails) or the Entry put in ENTRIES
bench(attr, item) ==
    LET parsed == attr_parser(attr, [divan_crate |-> None, bench_name_expr |-> None,
                                     error |-> None])
    IN  IF parsed.error # None THEN [error |-> parsed.error, entry |-> None]
        ELSE IF ~item.is_fn THEN [error |-> Some("expected fn"), entry |-> None]
        ELSE [error |-> None,
              entry |-> Some([name       |-> IF parsed.bench_name_expr # None
                                             THEN parsed.bench_name_expr
                                             ELSE bench_path_expr(item),
                              path       |-> bench_path_expr(item),
                              file       |-> item.file,
                              line       |-> item.line,
                              ignore     |-> ignore_of(item.attrs),
                              bench_loop |-> bench_loop_of(item),
                              get_id     |-> item.fn_name])]

\* the options an Entry carries: the struct has no field for them
EntryOptions(entry) == [sample_count |-> None, sample_size |-> None]

----------------------------------------------------------------------------
(* Configuration resolution (specification section 4.5; src/lib.rs         *)
(* documents the options and their cascade).                               *)

OptionNames == {"sample_count", "sample_size"}

BuiltinSampleCount == 2
BuiltinSampleSize == 1
BuiltinOptions ==
    [sample_count |-> Some(BuiltinSampleCount), sample_size |-> Some(BuiltinSampleSize)]

RECURSIVE FirstSome(_)
FirstSome(sources) ==
    IF sources = << >> THEN None
    ELSE IF Head(sources) # None THEN Head(sources)
    ELSE FirstSome(Tail(sources))

\* command line > environment > the entry > its groups, innermost first >
\* the built-in default
ResolveOption(opt, cliOpts, envOpts, entryOpts, groupOpts) ==
    FirstSome(<<cliOpts[opt], envOpts[opt], entryOpts[opt]>>
              \o [i \in 1..Len(groupOpts) |-> groupOpts[i][opt]]
              \o <<BuiltinOptions[opt]>>)

Resolve(cliOpts, envOpts, entryOpts, groupOpts) ==
    [opt \in OptionNames |-> ResolveOption(opt, cliOpts, envOpts, entryOpts, groupOpts)]

----------------------------------------------------------------------------
(* The benchmark driver: the deferred-destruction buffer, the bench loop   *)
(* scheduler, the statistics aggregator (specification sections 4.2, 4.3,  *)
(* 4.4, 4.6 and 5; src/lib.rs documents when a returned value is dropped). *)
(* Durations are whole ticks of the timer.                                 *)

\* what one iteration of a routine takes
RoutineCost == 1

\* the time a sample of size iterations is measured to take
Elapsed(size, jitter) == RoutineCost * size + jitter

\* a plausible slip: the difference is not clamped at zero
normalize_unclamped(elapsed, ovh, size) == (elapsed - ovh * size) \div size

\* section 4.3, step 2: subtract (overhead * sample_size), clamp at zero,
\* divide by sample_size
normalize_sample(elapsed, ovh, size) ==
    (IF elapsed - ovh * size < 0 THEN 0 ELSE elapsed - ovh * size) \div size

\* the value the routine returns in iteration it of sample smp of entry e
Value(e, smp, it) == [entry |-> e, sample |-> smp, iter |-> it]

Released(buf, in_window) == {[id |-> buf[i], in_window |-> in_window] : i \in 1..Len(buf)}

\* a plausible slip: the value is dropped when the routine returns
defer_dropping(buf, drops, v, in_window) ==
    [buffer |-> buf, dropped |-> drops \cup Released(<<v>>, in_window)]

\* src/lib.rs 74-76: a returned value is not dropped until after the current
\* sample loop is finished
defer(buf, drops, v, in_window) == [buffer |-> Append(buf, v), dropped |-> drops]

\* the sample loop is finished: everything deferred is dropped
drain(buf, drops, in_window) ==
    [buffer |-> << >>, dropped |-> drops \cup Released(buf, in_window)]

\* a plausible slip: the unwind drops the values deferred so far
unwind_dropping(buf, drops, leaks, in_window) ==
    [buffer |-> << >>, dropped |-> drops \cup Released(buf, in_window), leaked |-> leaks]

\* src/lib.rs 78-80: if the benchmark panics, the values will never be dropped
unwind(buf, drops, leaks, in_window) ==
    [buffer |-> << >>, dropped |-> drops,
     leaked |-> leaks \cup {buf[i] : i \in 1..Len(buf)}]

\* section 4.4: the statistics of a SampleSet
RECURSIVE Sum(_)
Sum(s) == IF s = << >> THEN 0 ELSE Head(s) + Sum(Tail(s))

Min(s) == CHOOSE x \in {s[i] : i \in 1..Len(s)} : \A i \in 1..Len(s) : x <= s[i]
Max(s) == CHOOSE x \in {s[i] : i \in 1..Len(s)} : \A i \in 1..Len(s) : x >= s[i]

Median(s) ==
    LET sorted == SortSeq(s, LAMBDA a, b : a < b)
        n == Len(s)
    IN  IF n % 2 = 1 THEN sorted[(n + 1) \div 2]
        ELSE (sorted[n \div 2] + sorted[n \div 2 + 1]) \div 2

\* the largest r with r * r <= n
Isqrt(n) == CHOOSE r \in 0..n : r * r <= n /\ (r + 1) * (r + 1) > n

Stats(s) ==
    LET n == Len(s)
        mean == Sum(s) \div n
    IN  [count |-> n, sum |-> Sum(s), mean |-> mean, min |-> Min(s), max |-> Max(s),
         median |-> Median(s),
         std_dev |-> Isqrt(Sum([i \in 1..n |-> (s[i] - mean) * (s[i] - mean)]) \div n)]

\* section 5: the entry's time budget, if one is set, has expired
Expired(budget, time) == budget # None /\ time >= budget[1]

\* where the driver goes once a sample is drained
after_drain(count, n, budget, time) ==
    IF n = count \/ Expired(budget, time) THEN "aggregate" ELSE "sample"

----------------------------------------------------------------------------
(* The state.  Three machines share it, and each run uses one of them: the *)
(* duration model, the resolution of one declaration's options, and the    *)
(* driver running the registered benchmarks.                               *)

VARIABLES
    \* the duration model
    dur,    \* the two std Durations converted, << >> when none was
    fd,     \* the two FineDurations, << >> before they are made
    scale,  \* TimeScale::from_picos of each, << >> before it is called
    str,    \* to_string() of each, << >> before it is called
    dpc,    \* "new", "made", "scaled", "shown"; "off" outside this machine
    \* the resolution of one declaration
    decl,       \* Some([attr, item, groups]), the declaration
    reg,        \* Some(what the macro made of it), None before
    resolved,   \* Some(the resolved options), None before
    resolved2,  \* Some(a second resolution of the same entry), None before
    cpc,        \* "declared", "registered", "compile_error", "resolved",
                \* "resolved_twice"; "off" outside this machine
    \* the command line and the environment
    cli,        \* the options --sample-count and --sample-size give
    env,        \* the options DIVAN_SAMPLE_COUNT and DIVAN_SAMPLE_SIZE give
    flags,      \* [fail_fast, budget]: the fail-fast toggle, the time budget
    \* the driver
    ENTRIES,      \* the registry, in the order of registration
    items,        \* the function each entry was made from
    pc,           \* where the driver is; "off" outside this machine
    cur,          \* the index of the entry being run
    cfg,          \* Some(its resolved options), None between entries
    overhead,     \* the calibrated per-iteration overhead
    samples,      \* the SampleSet collected so far
    elapsed_log,  \* the elapsed time measured for each of them
    iter,         \* the iterations done in the sample in progress
    buffer,       \* the deferred-destruction buffer: the values it holds
    timing,       \* whether the sample's timer is running
    calls,        \* per entry: invocations of its routine
    timer_calls,  \* per entry: timer starts and stops
    dropped,      \* the values released: [id, in_window]
    leaked,       \* the values that will never be released
    results,      \* the result records emitted
    agg,          \* the SampleSets handed to the statistics aggregator
    spent,        \* the time measured for the entry so far
    luck          \* [jitter, panics]: how many ticks more the timer may still
                  \* read, and how often a routine may still panic

durVars == <<dur, fd, scale, str, dpc>>
cfgVars == <<decl, reg, resolved, resolved2, cpc>>
envVars == <<cli, env, flags>>
drvVars == <<ENTRIES, items, pc, cur, cfg, overhead, samples, elapsed_log, iter, buffer,
             timing, calls, timer_calls, dropped, leaked, results, agg, spent, luck>>
vars == <<durVars, cfgVars, envVars, drvVars>>

----------------------------------------------------------------------------
(* The duration model as a state machine: two durations are made (from a   *)
(* std Duration, or as the literal FineDuration { picos }), classified and *)
(* formatted.                                                              *)

\* bounds of the inputs
MaxExp == 12
MaxStep == 3

\* integer and thousandth parts of the values tried in every unit
Hs == {0, 1, 9, 10, 59, 60, 99, 100, 999, 1000, 3599, 86399}
Ls == {0, 1, 20, 200, 234, 503, 999}

GridPicos == { BigShift(BigFromInt(h * 1000 + l), k) : h \in Hs, l \in Ls, k \in 0..MaxExp }

Around(t) == {BigSub(t, <<1>>), t, BigAdd(t, <<1>>)}

\* the thresholds, the values of the crate's own tests, and the extremes
EdgePicos ==
    Around(NANOS) \cup Around(MICROS) \cup Around(MILLIS) \cup Around(SEC)
    \cup Around(MIN) \cup Around(HOUR) \cup Around(DAY) \cup Around(DAY_1000)
    \cup { BigMul(MILLIS, BigFromInt(59999)), BigMul(MILLIS, BigFromInt(3599000)),
           BigMul(MILLIS, BigFromInt(86300000)),
           BigAdd(DAY, BigDiv(DAY, BigFromInt(10))),
           BigAdd(DAY, BigDiv(DAY, BigFromInt(100))),
           BigAdd(DAY, BigDiv(DAY, BigFromInt(1000))),
           BigMulSmall(DAY, 10000), BigMulSmall(DAY, 100000),
           BigDiv(U128_MAX, BigFromInt(1000)), BigSub(U128_MAX, <<1>>), U128_MAX }

IsU128(a) == BigLess(a, U128_MODULUS)
IsU64(a) == BigLess(a, U64_MODULUS)

PicosInputs == { a \in GridPicos \cup EdgePicos : IsU128(a) }

\* the second value of a pair: the first one plus a step of its own size
Step(a, s) ==
    IF s = 0 THEN <<1>> ELSE BigShift(<<1>>, MaxOf(0, Len(a) - 3 + s))

SecsInputs ==
    { a \in { BigShift(BigFromInt(h), k) : h \in {0, 1, 999}, k \in 0..MaxExp } : IsU64(a) }
    \cup {BigSub(U64_MAX, <<1>>), U64_MAX}

NanosInputs == {0, 1, 999, 1000, 999999999}

Duration(secs, nanos) == [secs |-> secs, nanos |-> nanos]

\* Duration's derived ordering: seconds, then nanoseconds
DurationLess(d1, d2) ==
    \/ BigLess(d1.secs, d2.secs)
    \/ d1.secs = d2.secs /\ d1.nanos < d2.nanos

InitDuration ==
    /\ decl = << >> /\ reg = << >> /\ resolved = << >> /\ resolved2 = << >> /\ cpc = "off"
    /\ cli = [sample_count |-> << >>, sample_size |-> << >>] /\ env = cli
    /\ flags = [fail_fast |-> FALSE, budget |-> << >>]
    /\ ENTRIES = << >> /\ items = << >> /\ pc = "off" /\ cur = 0 /\ cfg = << >>
    /\ overhead = 0 /\ samples = << >> /\ elapsed_log = << >> /\ iter = 0
    /\ buffer = << >> /\ timing = FALSE /\ calls = << >> /\ timer_calls = << >>
    /\ dropped = {} /\ leaked = {} /\ results = << >> /\ agg = << >> /\ spent = 0
    /\ luck = [jitter |-> 0, panics |-> 0]
    /\ scale = << >>
    /\ str = << >>
    /\ \/ /\ dpc = "new"
          /\ fd = << >>
          /\ \E s1 \in SecsInputs, n1 \in NanosInputs, n2 \in NanosInputs, up \in 0..1 :
                LET s2 == IF up = 1 THEN BigAdd(s1, <<1>>) ELSE s1
                IN  /\ IsU64(s2)
                    /\ dur = <<Duration(s1, n1), Duration(s2, n2)>>
       \/ /\ dpc = "made"
          /\ dur = << >>
          /\ \E a \in PicosInputs, s \in 0..MaxStep :
                LET b == BigAdd(a, Step(a, s))
                IN  /\ IsU128(b)
                    /\ fd = <<[picos |-> a], [picos |-> b]>>

\* FineDuration::from(duration)
From ==
    /\ dpc = "new"
    /\ fd' = <<from(dur[1]), from(dur[2])>>
    /\ dpc' = "made"
    /\ UNCHANGED <<dur, scale, str>>
    /\ UNCHANGED <<cfgVars, envVars, drvVars>>

\* TimeScale::from_picos(picos), as tests::max_time_scale calls it
Classify ==
    /\ dpc = "made"
    /\ scale' = <<from_picos(fd[1].picos), from_picos(fd[2].picos)>>
    /\ dpc' = "scaled"
    /\ UNCHANGED <<dur, fd, str>>
    /\ UNCHANGED <<cfgVars, envVars, drvVars>>

\* FineDuration::to_string()
Fmt ==
    /\ dpc \in {"made", "scaled"}
    /\ scale' = <<from_picos(fd[1].picos), from_picos(fd[2].picos)>>
    /\ str' = <<fmt(fd[1]), fmt(fd[2])>>
    /\ dpc' = "shown"
    /\ UNCHANGED <<dur, fd>>
    /\ UNCHANGED <<cfgVars, envVars, drvVars>>

NextDuration == From \/ Classify \/ Fmt

\* the depth of nesting of bench groups tried
MaxDepth == 2

Opts(c, z) == [sample_count |-> c, sample_size |-> z]
Meta(path, value) == [path |-> path, value |-> value]
Attr(path, form) == [path |-> path, form |-> form]

\* what the groups of src/lib.rs's cascade example declare
GroupOptions ==
    {Opts(None, None), Opts(Some(100), Some(500)), Opts(None, Some(1)), Opts(Some(42), None)}

RECURSIVE Chains(_)
Chains(n) ==
    IF n = 0 THEN {<< >>}
    ELSE Chains(n - 1) \cup { <<g>> \o c : g \in GroupOptions, c \in { c \in Chains(n - 1) : Len(c) = n - 1 } }

BenchAttrs ==
    { << >>, <<Meta("name", "my_add")>>, <<Meta("crate", "::sofa"), Meta("name", "my_add")>>,
      <<Meta("sample_count", "1")>>, <<Meta("sample_size", "2")>>,
      <<Meta("sample_count", "1"), Meta("sample_size", "2")>>,
      <<Meta("name", "my_add"), Meta("sample_count", "1000")>>,
      <<Meta("sample_count", "1000")>>, <<Meta("sample_size", "1000")>> }

Item(fn_name, attrs, inputs_empty, body) ==
    [is_fn |-> TRUE, module_path |-> "crate_name", fn_name |-> fn_name,
     file |-> "lib.rs", line |-> 1, attrs |-> attrs,
     inputs_empty |-> inputs_empty, body |-> body]

CliInputs == {Opts(c, z) : c \in {None, Some(7)}, z \in {None, Some(3)}}
EnvInputs == {Opts(c, z) : c \in {None, Some(5)}, z \in {None, Some(4)}}

\* the value the declaration's attribute gives an option, None if it gives none
LitValue(lit) == CASE lit = "1" -> 1 [] lit = "2" -> 2 [] lit = "1000" -> 1000
DeclaredOption(attr, opt) ==
    IF \E i \in 1..Len(attr) : attr[i].path = opt
    THEN Some(LitValue(attr[CHOOSE i \in 1..Len(attr) : attr[i].path = opt].value))
    ELSE None

InitConfig ==
    /\ dur = << >> /\ fd = << >> /\ scale = << >> /\ str = << >> /\ dpc = "off"
    /\ flags = [fail_fast |-> FALSE, budget |-> << >>]
    /\ ENTRIES = << >> /\ items = << >> /\ pc = "off" /\ cur = 0 /\ cfg = << >>
    /\ overhead = 0 /\ samples = << >> /\ elapsed_log = << >> /\ iter = 0
    /\ buffer = << >> /\ timing = FALSE /\ calls = << >> /\ timer_calls = << >>
    /\ dropped = {} /\ leaked = {} /\ results = << >> /\ agg = << >> /\ spent = 0
    /\ luck = [jitter |-> 0, panics |-> 0]
    /\ cpc = "declared"
    /\ reg = None /\ resolved = None /\ resolved2 = None
    /\ cli \in CliInputs
    /\ env \in EnvInputs
    /\ \E a \in BenchAttrs, g \in Chains(MaxDepth) :
          decl = Some([attr |-> a, item |-> Item("add", << >>, TRUE, "returns"), groups |-> g])

\* the build expands #[divan::bench(..)]
ExpandBench ==
    /\ cpc = "declared"
    /\ reg' = Some(bench(decl[1].attr, decl[1].item))
    /\ cpc' = IF reg'[1].error # None THEN "compile_error" ELSE "registered"
    /\ UNCHANGED <<decl, resolved, resolved2>>
    /\ UNCHANGED <<durVars, envVars, drvVars>>

\* the driver resolves the entry's options
ResolveEntry ==
    /\ cpc = "registered"
    /\ resolved' = Some(Resolve(cli, env, EntryOptions(reg[1].entry[1]), decl[1].groups))
    /\ cpc' = "resolved"
    /\ UNCHANGED <<decl, reg, resolved2>>
    /\ UNCHANGED <<durVars, envVars, drvVars>>

\* and resolves them again, nothing having changed
ResolveAgain ==
    /\ cpc = "resolved"
    /\ resolved2' = Some(Resolve(cli, env, EntryOptions(reg[1].entry[1]), decl[1].groups))
    /\ cpc' = "resolved_twice"
    /\ UNCHANGED <<decl, reg, resolved>>
    /\ UNCHANGED <<durVars, envVars, drvVars>>

NextConfig == ExpandBench \/ ResolveEntry \/ ResolveAgain

----------------------------------------------------------------------------
(* The driver as a state machine: the build registers the benchmarks, then *)
(* divan::main() runs them one after another.                              *)

\* how many benchmarks are registered at most
MaxEntries == 3
\* the sample count the command line asks for, when it asks for one
MaxCount == 3
\* how many ticks more the timer may read in a run, all in all
MaxJitter == 1
\* how often in a run a routine may panic
MaxPanics == 1
\* what a disturbed calibration pass reads
MaxOverhead == 2
\* the time budget of an entry, when one is set
TimeBudget == 3

FnNames == <<"a", "b", "c", "d", "e">>

\* the annotated functions tried: their other attributes, whether they take
\* no argument, what they do when called
FnShapes ==
    { << << >>, TRUE, "returns" >>,
      << <<Attr("inline", "Path")>>, TRUE, "may_panic" >>,
      << <<Attr("ignore", "NameValue")>>, TRUE, "unimplemented" >>,
      << <<Attr("inline", "Path"), Attr("ignore", "Path")>>, TRUE, "unimplemented" >>,
      << << >>, FALSE, "bench_once" >>,
      << << >>, FALSE, "bench_never" >> }

\* the runs tried: the command line, the fail-fast toggle, the time budget
RunInputs ==
    { <<Opts(Some(MaxCount), None), FALSE, None>>,
      <<Opts(None, Some(2)), TRUE, Some(TimeBudget)>>,
      <<Opts(Some(0), None), FALSE, None>>,
      <<Opts(None, Some(0)), TRUE, Some(TimeBudget)>> }

Bump(f, i) == [f EXCEPT ![i] = @ + 1]
Routine(i) == items[i].body

InitDriver ==
    /\ dur = << >> /\ fd = << >> /\ scale = << >> /\ str = << >> /\ dpc = "off"
    /\ decl = << >> /\ reg = << >> /\ resolved = << >> /\ resolved2 = << >> /\ cpc = "off"
    /\ \E r \in RunInputs :
          /\ cli = r[1]
          /\ flags = [fail_fast |-> r[2], budget |-> r[3]]
    /\ env = Opts(None, None)
    /\ ENTRIES = << >> /\ items = << >> /\ pc = "build" /\ cur = 0 /\ cfg = None
    /\ overhead = 0 /\ samples = << >> /\ elapsed_log = << >> /\ iter = 0
    /\ buffer = << >> /\ timing = FALSE /\ calls = << >> /\ timer_calls = << >>
    /\ dropped = {} /\ leaked = {} /\ results = << >> /\ agg = << >> /\ spent = 0
    /\ luck = [jitter |-> MaxJitter, panics |-> MaxPanics]

\* the build expands one more #[divan::bench] and registers its entry
Register ==
    /\ pc = "build"
    /\ Len(ENTRIES) < MaxEntries
    /\ \E shape \in FnShapes :
          LET item == Item(FnNames[Len(ENTRIES) + 1], shape[1], shape[2], shape[3])
              made == bench(<< >>, item)
          IN  IF made.error # None
              THEN pc' = "compile_error" /\ UNCHANGED <<ENTRIES, items>>
              ELSE /\ ENTRIES' = Append(ENTRIES, made.entry[1])
                   /\ items' = Append(items, item)
                   /\ pc' = pc
    /\ UNCHANGED <<cur, cfg, overhead, samples, elapsed_log, iter, buffer, timing, calls,
                   timer_calls, dropped, leaked, results, agg, spent, luck>>
    /\ UNCHANGED <<durVars, cfgVars, envVars>>

\* divan::main()
Main ==
    /\ pc = "build"
    /\ pc' = "select"
    /\ cur' = 1
    /\ calls' = [i \in 1..Len(ENTRIES) |-> 0]
    /\ timer_calls' = [i \in 1..Len(ENTRIES) |-> 0]
    /\ UNCHANGED <<ENTRIES, items, cfg, overhead, samples, elapsed_log, iter, buffer,
                   timing, dropped, leaked, results, agg, spent, luck>>
    /\ UNCHANGED <<durVars, cfgVars, envVars>>

\* the options the driver resolves for entry i
ResolvedFor(i) ==
    LET r == Resolve(cli, env, EntryOptions(ENTRIES[i]), << >>)
    IN  [sample_count |-> r.sample_count[1], sample_size |-> r.sample_size[1]]

\* what ends an entry's run: its record is emitted, its SampleSet and its
\* options are discarded, the next entry is selected
Emit(record, next) ==
    /\ results' = Append(results, record)
    /\ samples' = << >>
    /\ elapsed_log' = << >>
    /\ cfg' = None
    /\ spent' = 0
    /\ iter' = 0
    /\ cur' = cur + 1
    /\ pc' = next

\* every entry has been dealt with
Finish ==
    /\ pc = "select"
    /\ cur > Len(ENTRIES)
    /\ pc' = "done"
    /\ UNCHANGED <<ENTRIES, items, cur, cfg, overhead, samples, elapsed_log, iter, buffer,
                   timing, calls, timer_calls, dropped, leaked, results, agg, spent, luck>>
    /\ UNCHANGED <<durVars, cfgVars, envVars>>

\* an entry flagged ignored is filtered out
SkipIgnored ==
    /\ pc = "select"
    /\ cur <= Len(ENTRIES)
    /\ ENTRIES[cur].ignore
    /\ cur' = cur + 1
    /\ UNCHANGED <<ENTRIES, items, pc, cfg, overhead, samples, elapsed_log, iter, buffer,
                   timing, calls, timer_calls, dropped, leaked, results, agg, spent, luck>>
    /\ UNCHANGED <<durVars, cfgVars, envVars>>

\* sample_count or sample_size resolved to zero: a configuration error, the
\* entry is not executed
RejectOptions ==
    /\ pc = "select"
    /\ cur <= Len(ENTRIES)
    /\ ~ENTRIES[cur].ignore
    /\ ResolvedFor(cur).sample_count = 0 \/ ResolvedFor(cur).sample_size = 0
    /\ Emit([entry |-> cur, status |-> "config_error", sample_count |-> 0,
             stats |-> None, cause |-> None], "select")
    /\ UNCHANGED <<ENTRIES, items, overhead, buffer, timing, calls, timer_calls, dropped,
                   leaked, agg, luck>>
    /\ UNCHANGED <<durVars, cfgVars, envVars>>

\* the entry's options are resolved, its run begins
Begin ==
    /\ pc = "select"
    /\ cur <= Len(ENTRIES)
    /\ ~ENTRIES[cur].ignore
    /\ ResolvedFor(cur).sample_count # 0 /\ ResolvedFor(cur).sample_size # 0
    /\ cfg' = Some(ResolvedFor(cur))
    /\ pc' = "calibrate"
    /\ UNCHANGED <<ENTRIES, items, cur, overhead, samples, elapsed_log, iter, buffer,
                   timing, calls, timer_calls, dropped, leaked, results, agg, spent, luck>>
    /\ UNCHANGED <<durVars, cfgVars, envVars>>

\* step 1, the calibration pass: the empty harness is timed
Calibrate ==
    /\ pc = "calibrate"
    /\ \E noisy \in {FALSE} \cup {luck.jitter > 0} :
          /\ overhead' = IF noisy THEN MaxOverhead ELSE 0
          /\ luck' = [luck EXCEPT !.jitter = IF noisy THEN @ - 1 ELSE @]
    /\ timer_calls' = [timer_calls EXCEPT ![cur] = @ + 2]
    /\ pc' = "sample"
    /\ UNCHANGED <<ENTRIES, items, cur, cfg, samples, elapsed_log, iter, buffer, timing,
                   calls, dropped, leaked, results, agg, spent>>
    /\ UNCHANGED <<durVars, cfgVars, envVars>>

\* step 2: the timer is started; a routine taking a Bencher is called with it
StartSample ==
    /\ pc = "sample"
    /\ Routine(cur) # "bench_never"
    /\ timing' = TRUE
    /\ timer_calls' = Bump(timer_calls, cur)
    /\ calls' = IF ENTRIES[cur].bench_loop = "Runtime" THEN Bump(calls, cur) ELSE calls
    /\ iter' = 0
    /\ pc' = "iterate"
    /\ UNCHANGED <<ENTRIES, items, cur, cfg, overhead, samples, elapsed_log, buffer,
                   dropped, leaked, results, agg, spent, luck>>
    /\ UNCHANGED <<durVars, cfgVars, envVars>>

\* the routine returns without having called Bencher::bench: a configuration
\* error, the entry's run is aborted
Misuse ==
    /\ pc = "sample"
    /\ Routine(cur) = "bench_never"
    /\ timer_calls' = Bump(timer_calls, cur)
    /\ calls' = Bump(calls, cur)
    /\ Emit([entry |-> cur, status |-> "config_error", sample_count |-> 0,
             stats |-> None, cause |-> None], "select")
    /\ UNCHANGED <<ENTRIES, items, overhead, buffer, timing, dropped, leaked, agg, luck>>
    /\ UNCHANGED <<durVars, cfgVars, envVars>>

\* one iteration: the routine (or the closure given to Bencher::bench)
\* returns a value, which is deferred
Iterate ==
    /\ pc = "iterate"
    /\ iter < cfg[1].sample_size
    /\ LET d == defer(buffer, dropped, Value(cur, Len(samples) + 1, iter + 1), timing)
       IN  buffer' = d.buffer /\ dropped' = d.dropped
    /\ iter' = iter + 1
    /\ calls' = IF ENTRIES[cur].bench_loop = "Static" THEN Bump(calls, cur) ELSE calls
    /\ UNCHANGED <<ENTRIES, items, pc, cur, cfg, overhead, samples, elapsed_log, timing,
                   timer_calls, leaked, results, agg, spent, luck>>
    /\ UNCHANGED <<durVars, cfgVars, envVars>>

\* one iteration: the routine panics.  The entry's samples are discarded and
\* it is reported failed with the iteration that panicked as the cause; with
\* fail-fast the whole run aborts
Panic ==
    /\ pc = "iterate"
    /\ iter < cfg[1].sample_size
    /\ Routine(cur) = "may_panic"
    /\ luck.panics > 0
    /\ luck' = [luck EXCEPT !.panics = @ - 1]
    /\ calls' = Bump(calls, cur)
    /\ LET u == unwind(buffer, dropped, leaked, timing)
       IN  buffer' = u.buffer /\ dropped' = u.dropped /\ leaked' = u.leaked
    /\ timing' = FALSE
    /\ Emit([entry |-> cur, status |-> "failed", sample_count |-> 0, stats |-> None,
             cause |-> Some(Value(cur, Len(samples) + 1, iter + 1))],
            IF flags.fail_fast THEN "aborted" ELSE "select")
    /\ UNCHANGED <<ENTRIES, items, overhead, timer_calls, agg>>
    /\ UNCHANGED <<durVars, cfgVars, envVars>>

\* the timer is stopped and the sample computed
StopSample ==
    /\ pc = "iterate"
    /\ iter = cfg[1].sample_size
    /\ \E jitter \in 0..luck.jitter :
          LET elapsed == Elapsed(cfg[1].sample_size, jitter)
          IN  /\ samples' = Append(samples,
                                   normalize_sample(elapsed, overhead, cfg[1].sample_size))
              /\ elapsed_log' = Append(elapsed_log, elapsed)
              /\ spent' = spent + elapsed
              /\ luck' = [luck EXCEPT !.jitter = @ - jitter]
    /\ timing' = FALSE
    /\ timer_calls' = Bump(timer_calls, cur)
    /\ pc' = "drain"
    /\ UNCHANGED <<ENTRIES, items, cur, cfg, overhead, iter, buffer, calls, dropped,
                   leaked, results, agg>>
    /\ UNCHANGED <<durVars, cfgVars, envVars>>

\* step 3: the buffer is drained and its values released
Drain ==
    /\ pc = "drain"
    /\ LET d == drain(buffer, dropped, timing)
       IN  buffer' = d.buffer /\ dropped' = d.dropped
    /\ pc' = after_drain(cfg[1].sample_count, Len(samples), flags.budget, spent)
    /\ UNCHANGED <<ENTRIES, items, cur, cfg, overhead, samples, elapsed_log, iter, timing,
                   calls, timer_calls, leaked, results, agg, spent, luck>>
    /\ UNCHANGED <<durVars, cfgVars, envVars>>

\* the SampleSet goes to the statistics aggregator, the result is emitted
Aggregate ==
    /\ pc = "aggregate"
    /\ agg' = Append(agg, [entry |-> cur, samples |-> samples, elapsed |-> elapsed_log,
                           overhead |-> overhead, options |-> cfg[1],
                           incomplete |-> Len(samples) < cfg[1].sample_count])
    /\ Emit([entry |-> cur,
             status |-> IF Len(samples) < cfg[1].sample_count THEN "incomplete" ELSE "ok",
             sample_count |-> Len(samples), stats |-> Some(Stats(samples)),
             cause |-> None], "select")
    /\ UNCHANGED <<ENTRIES, items, overhead, buffer, timing, calls, timer_calls, dropped,
                   leaked, luck>>
    /\ UNCHANGED <<durVars, cfgVars, envVars>>

NextDriver ==
    \/ Register \/ Main \/ Finish \/ SkipIgnored \/ RejectOptions \/ Begin \/ Calibrate
    \/ StartSample \/ Misuse \/ Iterate \/ Panic \/ StopSample \/ Drain \/ Aggregate

----------------------------------------------------------------------------
(* The specifications.                                                     *)

SpecDuration == InitDuration /\ [][NextDuration]_vars

SpecConfig == InitConfig /\ [][NextConfig]_vars

SpecDriver == InitDriver /\ [][NextDriver]_vars

----------------------------------------------------------------------------
(* What the specification says of the duration model, in its own terms.    *)

\* the eight buckets: [lower, upper) in picoseconds, unit and suffix
P10(n) == BigShift(<<1>>, n \div 3)        \* 10^n for n a multiple of 3
BucketLo(b) ==
    CASE b = "PicoSec" -> << >>
      [] b = "NanoSec" -> P10(3)
      [] b = "MicroSec" -> P10(6)
      [] b = "MilliSec" -> P10(9)
      [] b = "Sec" -> P10(12)
      [] b = "Min" -> BigShift(<<60>>, 4)
      [] b = "Hour" -> BigShift(<<600, 3>>, 4)
      [] b = "Day" -> BigShift(<<400, 86>>, 4)
BucketNext(b) ==
    CASE b = "PicoSec" -> "NanoSec"
      [] b = "NanoSec" -> "MicroSec"
      [] b = "MicroSec" -> "MilliSec"
      [] b = "MilliSec" -> "Sec"
      [] b = "Sec" -> "Min"
      [] b = "Min" -> "Hour"
      [] b = "Hour" -> "Day"
      [] b = "Day" -> "Day"
InBucket(p, b) ==
    /\ BigLeq(BucketLo(b), p)
    /\ b # "Day" => BigLess(p, BucketLo(BucketNext(b)))
BucketUnit(b) == IF b = "PicoSec" THEN <<1>> ELSE BucketLo(b)
BucketSuffix(b) ==
    CASE b = "PicoSec" -> <<"p", "s">>
      [] b = "NanoSec" -> <<"n", "s">>
      [] b = "MicroSec" -> <<"µ", "s">>
      [] b = "MilliSec" -> <<"m", "s">>
      [] b = "Sec" -> <<"s">>
      [] b = "Min" -> <<"m">>
      [] b = "Hour" -> <<"h">>
      [] b = "Day" -> <<"d">>
ThousandDays == BigShift(<<400, 86>>, 5)

\* reading a printed duration: the number, then the suffix
IsNumChar(c) == IsDigit(c) \/ c = "."
NumLen(s) ==
    IF \E i \in 1..Len(s) : ~IsNumChar(s[i])
    THEN (CHOOSE i \in 1..Len(s) : ~IsNumChar(s[i]) /\ \A j \in 1..(i - 1) : IsNumChar(s[j])) - 1
    ELSE Len(s)
NumPart(s) == SubSeq(s, 1, NumLen(s))
SuffixPart(s) == SubSeq(s, NumLen(s) + 1, Len(s))
IntPart(num) == IF find(num, ".") = -1 THEN num ELSE SubSeq(num, 1, find(num, "."))
FracPart(num) == IF find(num, ".") = -1 THEN << >> ELSE SubSeq(num, find(num, ".") + 2, Len(num))
AllDigits(s) == \A i \in 1..Len(s) : IsDigit(s[i])

RECURSIVE ParseBig(_)
ParseBig(digs) ==
    IF digs = << >> THEN << >>
    ELSE BigAdd(BigMulSmall(ParseBig(SubSeq(digs, 1, Len(digs) - 1)), 10),
                BigFromInt(DigitVal(digs[Len(digs)])))

\* the fraction's digits as thousandths (at most three digits)
FracThousandths(f) ==
    (IF Len(f) >= 1 THEN 100 * DigitVal(f[1]) ELSE 0)
    + (IF Len(f) >= 2 THEN 10 * DigitVal(f[2]) ELSE 0)
    + (IF Len(f) >= 3 THEN DigitVal(f[3]) ELSE 0)

\* a decimal number: digits, and optionally a point and one to three digits
WellFormedNum(num) ==
    /\ IntPart(num) # << >> /\ AllDigits(IntPart(num))
    /\ Len(IntPart(num)) > 1 => IntPart(num)[1] # "0"
    /\ AllDigits(FracPart(num)) /\ Len(FracPart(num)) <= 3
    /\ find(num, ".") # -1 => FracPart(num) # << >>

\* the printed number, in thousandths
NumVal(s) ==
    BigAdd(BigShift(ParseBig(IntPart(NumPart(s))), 1),
           BigFromInt(FracThousandths(FracPart(NumPart(s)))))

\* C1: converting a std Duration d gives exactly d's nanoseconds times 1000
\* picoseconds, a value below 2^128, and a smaller Duration gives a smaller
\* FineDuration.
C1_FromDurationExact ==
    (dur # << >> /\ fd # << >>) =>
        /\ \A i \in 1..2 :
              /\ fd[i].picos = BigShift(as_nanos(dur[i]), 1)
              /\ BigLess(BigShift(as_nanos(dur[i]), 1), U128_MODULUS)
        /\ DurationLess(dur[1], dur[2]) => BigLess(fd[1].picos, fd[2].picos)

C1_Witness ==
    /\ dur # << >> /\ fd # << >>
    /\ dur[2] = Duration(U64_MAX, 999999999)
    /\ DurationLess(dur[1], dur[2])

\* C2: from_picos gives the one bucket whose half-open interval holds the
\* count: every count is in exactly one bucket, and it is the result.
C2_ScalePartition ==
    scale # << >> =>
        \A i \in 1..2 :
            /\ scale[i] \in TimeScale
            /\ \A b \in TimeScale : InBucket(fd[i].picos, b) <=> b = scale[i]

C2_Witness ==
    /\ scale # << >>
    /\ fd[2].picos = BucketLo("Min") /\ scale[2] = "Min"
    /\ fd[1].picos = BigSub(BucketLo("Min"), <<1>>) /\ scale[1] = "Sec"

\* C3: of two counts in one bucket, the smaller never prints the larger
\* number, the Day bucket's switch to whole days at 1000 days included.
C3_Monotonic ==
    (dpc = "shown" /\ BigLess(fd[1].picos, fd[2].picos) /\ scale[1] = scale[2])
        => BigLeq(NumVal(str[1]), NumVal(str[2]))

C3_Witness ==
    /\ dpc = "shown"
    /\ scale[1] = "Day" /\ scale[2] = "Day"
    /\ BigLess(fd[1].picos, ThousandDays)
    /\ BigLeq(ThousandDays, fd[2].picos)

\* an integer n >= 0 has at most 4 significant digits
NumDigits(n) == Len(IntToChars(n))
Pow10(e) == CASE e = 0 -> 1 [] e = 1 -> 10 [] e = 2 -> 100 [] e = 3 -> 1000
              [] e = 4 -> 10000 [] e = 5 -> 100000 [] OTHER -> 1000000
SigStep(n) == Pow10(MaxOf(0, NumDigits(n) - 4))
AtMost4Sig(n) == n % SigStep(n) = 0

\* C4: below 1000 days the printed number is the largest one with at most 4
\* significant digits and at most 3 fractional digits that does not exceed
\* picos / unit; it ends neither in a fractional zero nor in a point, and
\* the bucket's suffix follows it.
C4_TruncatedTo4Sig ==
    dpc = "shown" =>
        \A i \in 1..2 :
            BigLess(fd[i].picos, ThousandDays) =>
                \E b \in TimeScale :
                    /\ InBucket(fd[i].picos, b)
                    /\ SuffixPart(str[i]) = BucketSuffix(b)
                    /\ WellFormedNum(NumPart(str[i]))
                    /\ (FracPart(NumPart(str[i])) # << >>
                         => FracPart(NumPart(str[i]))[Len(FracPart(NumPart(str[i])))] # "0")
                    /\ LET n == BigToInt(NumVal(str[i]))
                           x1000 == BigShift(fd[i].picos, 1)
                       IN  /\ AtMost4Sig(n)
                           /\ BigLeq(BigMul(BucketUnit(b), BigFromInt(n)), x1000)
                           /\ BigLess(x1000, BigMul(BucketUnit(b), BigFromInt(n + SigStep(n))))

C4_Witness ==
    /\ dpc = "shown"
    /\ fd[1].picos = BigSub(BucketLo("Hour"), <<1>>)
    /\ str[1] = <<"5", "9", ".", "9", "9", "m">>
    /\ str[2] = <<"1", "h">>

\* C5: from 1000 days on, the printed text is the decimal integer
\* floor(picos / picos-per-day), without a fraction, followed by d.
C5_WholeDays ==
    dpc = "shown" =>
        \A i \in 1..2 :
            BigLeq(ThousandDays, fd[i].picos) =>
                /\ SuffixPart(str[i]) = <<"d">>
                /\ AllDigits(NumPart(str[i])) /\ NumPart(str[i]) # << >>
                /\ NumPart(str[i])[1] # "0"
                /\ LET n == ParseBig(NumPart(str[i]))
                   IN  /\ BigLeq(BigMul(n, BucketLo("Day")), fd[i].picos)
                       /\ BigLess(fd[i].picos, BigMul(BigAdd(n, <<1>>), BucketLo("Day")))

C5_Witness ==
    /\ dpc = "shown"
    /\ fd[2].picos = U128_MAX
    /\ Len(NumPart(str[2])) = 22
    /\ SubSeq(str[2], 1, 4) = <<"3", "9", "3", "8">>

\* C6: each option resolves to the value of the highest source that sets it:
\* command line, environment, the entry's own declaration, its groups from
\* the innermost out, the built-in default; and resolving twice gives the
\* same.  A declaration always builds into an entry that resolves so.
C6_Precedence ==
    cpc \in {"compile_error", "resolved", "resolved_twice"} =>
        /\ cpc # "compile_error"
        /\ \A opt \in OptionNames :
              resolved[1][opt] =
                  FirstSome(<<cli[opt], env[opt], DeclaredOption(decl[1].attr, opt)>>
                            \o [i \in 1..Len(decl[1].groups) |-> decl[1].groups[i][opt]]
                            \o <<BuiltinOptions[opt]>>)
        /\ cpc = "resolved_twice" => resolved2 = resolved

\* C11: a declaration that sets only name, crate, sample_count and
\* sample_size is accepted: the build does not reject it as an unsupported
\* property, and the entry registered carries the values it declares.
C11_OptionsAccepted ==
    ( /\ cpc # "declared"
      /\ \A i \in 1..Len(decl[1].attr) :
            decl[1].attr[i].path \in {"name", "crate", "sample_count", "sample_size"} )
    => /\ reg[1].error = None
       /\ reg[1].entry # None
       /\ \A opt \in OptionNames :
             EntryOptions(reg[1].entry[1])[opt] = DeclaredOption(decl[1].attr, opt)

\* the ratio of the next coarser unit to the bucket's unit, in thousandths
\* (a day has no coarser unit: the fractional rendering ends at 1000 days)
BucketRatio(b) ==
    CASE b \in {"PicoSec", "NanoSec", "MicroSec", "MilliSec", "Day"} -> 1000000
      [] b \in {"Sec", "Min"} -> 60000
      [] b = "Hour" -> 24000

\* C12: below 1000 days, a count under 1000 is printed as that integer, and
\* any other as a number that is at least 1 and less than the ratio of the
\* next coarser unit to the bucket's unit; so the integer part has at most 3
\* digits, at least one fractional digit is allowed, and the fraction is
\* never stripped whole for want of an allowed fractional digit.
C12_ValueBelowUnitRatio ==
    dpc = "shown" =>
        \A i \in 1..2 :
            BigLess(fd[i].picos, ThousandDays) =>
                LET p == fd[i].picos
                    b == CHOOSE b \in TimeScale : InBucket(p, b)
                    val == float_val(p, scale[i])
                    n == BigToInt(NumVal(str[i]))
                IN  /\ WellFormedNum(NumPart(str[i]))
                    /\ IF BigLess(p, P10(3))
                       THEN /\ find(NumPart(str[i]), ".") = -1
                            /\ ParseBig(NumPart(str[i])) = p
                       ELSE 1000 <= n /\ n < BucketRatio(b)
                    /\ Len(IntPart(NumPart(str[i]))) <= 3
                    /\ int_digits_of(val) <= 3
                    /\ fract_digits_of(val) >= 1
                    /\ ~strips_whole_fraction(val)

C12_Witness ==
    /\ dpc = "shown"
    /\ fd[1].picos = BigSub(BucketLo("Day"), <<1>>)
    /\ str[1] = <<"2", "3", ".", "9", "9", "h">>
    /\ int_digits_of(float_val(fd[1].picos, scale[1])) = 2
    /\ fd[2].picos = BucketLo("Day")
    /\ str[2] = <<"1", "d">>

----------------------------------------------------------------------------
(* What the specification says of the driver.                              *)

DroppedIds == {d.id : d \in dropped}
Buffered == {buffer[i] : i \in 1..Len(buffer)}
Failed == {k \in 1..Len(results) : results[k].status = "failed"}
Trivial(i) == items[i].body \in {"returns", "bench_once"}
HasIgnoreAttr(i) == \E j \in 1..Len(items[i].attrs) : items[i].attrs[j].path = "ignore"
NotIgnored == {i \in 1..Len(ENTRIES) : ~HasIgnoreAttr(i)}

C8_ReleasedOnUnwind ==
    \A k \in Failed :
        LET p == results[k].cause[1]
        IN  /\ p \notin DroppedIds \cup leaked \cup Buffered
            /\ \A i \in 1..(p.iter - 1) : Value(p.entry, p.sample, i) \in DroppedIds

\* C8, amended: when the routine panics in an iteration, no value is buffered
\* for that iteration, and the values buffered before it in that sample are
\* never dropped: they leave the buffer unreleased, and nothing else does.
C8_LeakedOnUnwind ==
    /\ \A k \in Failed :
          LET p == results[k].cause[1]
          IN  /\ p \notin DroppedIds \cup leaked \cup Buffered
              /\ \A i \in 1..(p.iter - 1) :
                    /\ Value(p.entry, p.sample, i) \in leaked
                    /\ Value(p.entry, p.sample, i) \notin DroppedIds \cup Buffered
    /\ \A v \in leaked :
          \E k \in Failed :
              LET p == results[k].cause[1]
              IN  v.entry = p.entry /\ v.sample = p.sample /\ v.iter < p.iter

C8_Witness ==
    \E k \in Failed :
        /\ results[k].cause[1].iter = 2
        /\ results[k].cause[1].sample = 2
        /\ leaked = {Value(results[k].entry, 2, 1)}
        /\ Value(results[k].entry, 1, 1) \in DroppedIds

SamplesAsSpecified ==
    \A k \in 1..Len(agg) :
        LET a == agg[k]
            size == a.options.sample_size
        IN  /\ Len(a.elapsed) = Len(a.samples)
            /\ \A j \in 1..Len(a.samples) :
                  LET net == a.elapsed[j] - a.overhead * size
                      clamped == IF net > 0 THEN net ELSE 0
                  IN  /\ a.samples[j] >= 0
                      /\ a.samples[j] * size <= clamped
                      /\ clamped < (a.samples[j] + 1) * size

FailedDiscarded ==
    /\ \A k \in Failed :
          /\ results[k].stats = None
          /\ \A j \in 1..Len(agg) : agg[j].entry # results[k].entry
    /\ \A k \in 1..Len(results) :
          results[k].stats # None =>
              \E j \in 1..Len(agg) :
                  /\ agg[j].entry = results[k].entry
                  /\ results[k].stats[1].count = Len(agg[j].samples)
    /\ pc \in {"select", "done", "aborted"} => samples = << >>

====
